---- MODULE Spec2Model ----
(***************************************************************************)
(* The 2D Ising lattice kernel of CythonIsingModel.ipynb: ising_step (the  *)
(* checkerboard sweep) and _ising_update (the Metropolis update of one     *)
(* site).  Spins are the integers -1 and +1.  beta is carried in tenths    *)
(* (4 stands for 0.4) and a random sample of np.random.rand() in           *)
(* millionths (201896 stands for 0.201896).                                *)
(***************************************************************************)
EXTENDS Integers, Sequences, FiniteSets, TLC

VARIABLES
    N, M,       \* field.shape
    field,      \* the lattice: [Sites -> {-1, 1}]
    beta,       \* the beta argument of the current ising_step call, in tenths
    pc,         \* "idle" (no call yet), "loop" (inside ising_step), "return"
    steps,      \* number of ising_step calls that have returned
    n_offset, m_offset, n, m,   \* the loop variables of ising_step
    trace,      \* history: the _ising_update calls of the current step, in order
    draws,      \* history: number of np.random.rand() calls of the current step
    last,       \* history: what the most recent _ising_update call did
    \* one pass (n_offset, m_offset) with its calls in any order, each call
    \* reading (lines 185-193, 195) before it writes (lines 194, 196)
    usample,    \* the sample np.random.rand() gives the call at each site
    ref,        \* the lattice the pass leaves in the order of ising_step
    todo,       \* sites of the pass whose call has not started
    pending,    \* calls that have read and decided: <<site, cells to write>>
    swapped,    \* history: some call started before the call of an earlier site
    overlapped  \* history: some call started before another had written

passVars == <<usample, ref, todo, pending, swapped, overlapped>>

vars == <<N, M, field, beta, pc, steps, n_offset, m_offset, n, m, trace, draws,
          last, passVars>>

\* ------------------------------------------------------------------ bounds

MaxN == 3
MaxM == 3
MaxCells == 9
MaxSteps == 2
MaxPassN == 4
MaxPassM == 4
MaxPassCells == 8

\* ------------------------------------------------------- program constants

\* beta=0.4, the default of ising_step, in tenths
DefaultBeta == 4

\* the step of range(n_offset, N, 2) and range(m_offset, M, 2)
Stride1 == 2 - 1
Stride == 2

\* ----------------------------------------------------------------- inputs

\* beta values a caller passes (tenths): the default 0.4, and 1.0
Betas == {DefaultBeta, 10}

\* values np.random.rand() returns, in millionths of [0, 1)
Samples == {0, 201896, 201897, 999999}

Sizes == {s \in (1..MaxN) \X (1..MaxM) : s[1] * s[2] <= MaxCells}

Sites == (0..N-1) \X (0..M-1)

\* np.exp(-x/10) in millionths, rounded up.  For x > 0, e^(-x/10) is never a
\* whole number of millionths, so  np.exp(-x/10) > u/10^6  iff  ExpCeil(x) > u
\* for a sample of u millionths; e^0 = 1 exceeds every sample.
\* x = dE * beta ranges over the products of an even dE in 0..18 and a
\* member of Betas.
ExpTable ==
    0 :> 1000000 @@
    8 :> 449329 @@ 16 :> 201897 @@ 24 :> 90718 @@ 32 :> 40763 @@
    40 :> 18316 @@ 48 :> 8230 @@ 56 :> 3698 @@ 64 :> 1662 @@ 72 :> 747 @@
    20 :> 135336 @@ 60 :> 2479 @@ 80 :> 336 @@ 100 :> 46 @@
    120 :> 7 @@ 140 :> 1 @@ 160 :> 1 @@ 180 :> 1

ExpCeil(x) == ExpTable[x]

\* ---------------------------------------------------------- _ising_update

\* the index [i % N, j % M] of one read
WrapClamp(i, j) ==
    <<IF i < 0 THEN 0 ELSE IF i > N - 1 THEN N - 1 ELSE i,
      IF j < 0 THEN 0 ELSE IF j > M - 1 THEN M - 1 ELSE j>>
Wrap(i, j) == <<i % N, j % M>>

\* the cells read by the two for loops over i in range(n-1, n+2) and
\* j in range(m-1, m+2), in order, the iteration i == n and j == m skipped
ReadCells(a, b) ==
    << Wrap(a - 1, b - 1), Wrap(a - 1, b), Wrap(a - 1, b + 1),
       Wrap(a, b - 1),                     Wrap(a, b + 1),
       Wrap(a + 1, b - 1), Wrap(a + 1, b), Wrap(a + 1, b + 1) >>

\* total after the loops
TotalWithCentre(f, a, b) ==
    LET r == ReadCells(a, b)
    IN  f[r[1]] + f[r[2]] + f[r[3]] + f[r[4]] + f[<<a, b>>]
        + f[r[5]] + f[r[6]] + f[r[7]] + f[r[8]]
Total(f, a, b) ==
    LET r == ReadCells(a, b)
    IN  f[r[1]] + f[r[2]] + f[r[3]] + f[r[4]] + f[r[5]] + f[r[6]] + f[r[7]] + f[r[8]]

\* dE = 2 * field[n, m] * total
DeltaE(f, a, b) == 2 * f[<<a, b>>] * Total(f, a, b)

\* field[n, m] *= -1
FlipToggle01(f, a, b) == [f EXCEPT ![<<a, b>>] = 1 - @]
FlipNext(f, a, b) == [f EXCEPT ![Wrap(a, b + 1)] = @ * (-1)]
Flip(f, a, b) == [f EXCEPT ![<<a, b>>] = @ * (-1)]

\* if dE <= 0: flip without a sample; otherwise one sample is drawn
DrawsStrict(dE) == ~(dE < 0)
Draws(dE) == ~(dE <= 0)

\* np.exp(-dE * beta) > np.random.rand(), the sample being u
Accepts(dE, bt, u) == ExpCeil(dE * bt) > u

\* _ising_update(field, n, m, beta) when np.random.rand() would return u:
\* the field afterwards and the number of samples drawn
IsingUpdate(f, a, b, bt, u) ==
    LET dE == DeltaE(f, a, b)
    IN  IF ~Draws(dE)
        THEN [field |-> Flip(f, a, b), drawn |-> 0]
        ELSE IF Accepts(dE, bt, u)
             THEN [field |-> Flip(f, a, b), drawn |-> 1]
             ELSE [field |-> f, drawn |-> 1]

\* ------------------------------------------------------------- ising_step

\* The loop variables of the next call are a record c; "done" when the loops
\* are exhausted.
Done == [done |-> TRUE, n_offset |-> 0, m_offset |-> 0, n |-> 0, m |-> 0]

\* The first call at or after the k-th pass (k = 0..3) of
\*   for n_offset in range(2): for m_offset in range(2):
\* whose ranges range(n_offset, N, 2) and range(m_offset, M, 2) are not empty.
PassOffsetsColumnFirst(k) == <<k % 2, k \div 2>>
PassOffsets(k) == <<k \div 2, k % 2>>

RECURSIVE FirstCall(_)
FirstCall(k) ==
    IF k > 3 THEN Done
    ELSE LET o == PassOffsets(k)
         IN  IF o[1] < N /\ o[2] < M
             THEN [done |-> FALSE, n_offset |-> o[1], m_offset |-> o[2],
                   n |-> o[1], m |-> o[2]]
             ELSE FirstCall(k + 1)

PassIndex(c) == 2 * c.n_offset + c.m_offset

\* The call after c: the next m of range(m_offset, M, 2), else the next n
\* of range(n_offset, N, 2), else the next pass.
NextCall(c) ==
    IF c.m + Stride < M THEN [c EXCEPT !.m = @ + Stride]
    ELSE IF c.n + Stride < N THEN [c EXCEPT !.n = @ + Stride, !.m = c.m_offset]
    ELSE FirstCall(PassIndex(c) + 1)

NoCall ==
    [valid |-> FALSE, site |-> <<0, 0>>, n_offset |-> 0, m_offset |-> 0,
     prev |-> field, reads |-> <<>>, sample |-> -1]

Init ==
    /\ \E s \in Sizes : N = s[1] /\ M = s[2]
    /\ field \in [Sites -> {-1, 1}]
    /\ beta = DefaultBeta
    /\ pc = "idle"
    /\ steps = 0
    /\ n_offset = 0 /\ m_offset = 0 /\ n = 0 /\ m = 0
    /\ trace = <<>>
    /\ draws = 0
    /\ last = NoCall
    /\ usample = <<>> /\ ref = <<>> /\ todo = {} /\ pending = {}
    /\ swapped = FALSE /\ overlapped = FALSE

\* a caller enters ising_step(field, beta=bt); the loops reach their first call
StepBegin(bt) ==
    /\ pc \in {"idle", "return"}
    /\ steps < MaxSteps
    /\ pc' = "loop"
    /\ beta' = bt
    /\ LET c == FirstCall(0)
       IN  n_offset' = c.n_offset /\ m_offset' = c.m_offset /\ n' = c.n /\ m' = c.m
    /\ trace' = <<>>
    /\ draws' = 0
    /\ last' = NoCall
    /\ UNCHANGED <<N, M, field, steps, passVars>>

\* one iteration of the innermost loop: _ising_update(field, n, m, beta),
\* u being the value np.random.rand() returns if it is called; then the loops
\* advance to their next call, or ising_step returns field
Update(u) ==
    /\ pc = "loop"
    /\ LET r == IsingUpdate(field, n, m, beta, u)
           c == NextCall([done |-> FALSE, n_offset |-> n_offset,
                          m_offset |-> m_offset, n |-> n, m |-> m])
       IN  /\ field' = r.field
           /\ draws' = draws + r.drawn
           /\ trace' = Append(trace, [site |-> <<n, m>>, drawn |-> r.drawn])
           /\ last' = [valid |-> TRUE, site |-> <<n, m>>,
                       n_offset |-> n_offset, m_offset |-> m_offset,
                       prev |-> field, reads |-> ReadCells(n, m),
                       sample |-> IF r.drawn = 1 THEN u ELSE -1]
           /\ IF c.done
              THEN /\ pc' = "return"
                   /\ steps' = steps + 1
                   /\ UNCHANGED <<n_offset, m_offset, n, m>>
              ELSE /\ pc' = "loop"
                   /\ steps' = steps
                   /\ n_offset' = c.n_offset /\ m_offset' = c.m_offset
                   /\ n' = c.n /\ m' = c.m
    /\ UNCHANGED <<N, M, beta, passVars>>

Next ==
    \/ \E bt \in Betas : StepBegin(bt)
    \/ \E u \in Samples : Update(u)

Spec == Init /\ [][Next]_vars

\* ---------------------------------------- one pass, its calls in any order

PassSizes ==
    {s \in (1..MaxPassN) \X (1..MaxPassM) : s[1] * s[2] <= MaxPassCells}

\* samples that accept every flip and none
PassSamples == {0, 999999}

\* c is the last call of its pass
EndsPass(c) == NextCall(c).done \/ PassIndex(NextCall(c)) # PassIndex(c)

\* the sites the loops call from c to the end of c's pass
RECURSIVE PassSites(_)
PassSites(c) ==
    {<<c.n, c.m>>} \cup (IF EndsPass(c) THEN {} ELSE PassSites(NextCall(c)))

\* the lattice after the calls of the loops from c to the end of c's pass,
\* the call at site s being given the sample us[s]
RECURSIVE PassFrom(_, _, _)
PassFrom(f, c, us) ==
    LET g == IsingUpdate(f, c.n, c.m, beta, us[<<c.n, c.m>>]).field
    IN  IF EndsPass(c) THEN g ELSE PassFrom(g, NextCall(c), us)

\* the cells a call changes, with their new values
Writes(f, g) == {<<c, g[c]>> : c \in {x \in DOMAIN f : g[x] # f[x]}}

RECURSIVE Apply(_, _)
Apply(f, ws) ==
    IF ws = {} THEN f
    ELSE LET w == CHOOSE x \in ws : TRUE
         IN  Apply([f EXCEPT ![w[1]] = w[2]], ws \ {w})

InitPass ==
    /\ \E s \in PassSizes : N = s[1] /\ M = s[2]
    /\ field \in [Sites -> {-1, 1}]
    /\ beta \in Betas
    /\ pc = "pass"
    /\ steps = 0
    /\ \E k \in 0..3 :
          /\ ~FirstCall(k).done
          /\ PassIndex(FirstCall(k)) = k
          /\ n_offset = FirstCall(k).n_offset
          /\ m_offset = FirstCall(k).m_offset
          /\ todo = PassSites(FirstCall(k))
          /\ usample \in [todo -> PassSamples]
          /\ ref = PassFrom(field, FirstCall(k), usample)
    /\ n = 0 /\ m = 0
    /\ trace = <<>>
    /\ draws = 0
    /\ last = NoCall
    /\ pending = {}
    /\ swapped = FALSE /\ overlapped = FALSE

\* the call at s runs up to its decision: it reads its site and its eight
\* neighbours and, if it draws, its sample
PassRead(s) ==
    /\ pc = "pass"
    /\ s \in todo
    /\ LET r == IsingUpdate(field, s[1], s[2], beta, usample[s])
       IN  pending' = pending \cup {<<s, Writes(field, r.field)>>}
    /\ todo' = todo \ {s}
    /\ swapped' = (swapped \/ \E t \in todo : t # s /\
                                 (t[1] < s[1] \/ (t[1] = s[1] /\ t[2] < s[2])))
    /\ overlapped' = (overlapped \/ pending # {})
    /\ UNCHANGED <<N, M, field, beta, pc, steps, n_offset, m_offset, n, m,
                   trace, draws, last, usample, ref>>

\* the call at s writes what it decided and returns
PassWrite(s) ==
    /\ pc = "pass"
    /\ \E p \in pending :
          /\ p[1] = s
          /\ field' = Apply(field, p[2])
          /\ pending' = pending \ {p}
    /\ UNCHANGED <<N, M, beta, pc, steps, n_offset, m_offset, n, m,
                   trace, draws, last, usample, ref, todo, swapped, overlapped>>

NextPass ==
    \/ \E s \in Sites : PassRead(s)
    \/ \E s \in Sites : PassWrite(s)

SpecPass == InitPass /\ [][NextPass]_vars

\* ------------------------------------------------------------ properties

\* the sum of f over the cells (n+a) mod N, (m+b) mod M for the eight
\* offsets (a, b) other than (0, 0), counted with multiplicity
NeighbourOffsets == ((-1..1) \X (-1..1)) \ {<<0, 0>>}

RECURSIVE SumOffsets(_, _, _)
SumOffsets(f, s, offs) ==
    IF offs = {} THEN 0
    ELSE LET o == CHOOSE x \in offs : TRUE
         IN  f[<<(s[1] + o[1]) % N, (s[2] + o[2]) % M>>]
             + SumOffsets(f, s, offs \ {o})

NeighbourSum(f, s) == SumOffsets(f, s, NeighbourOffsets)

Parity(s) == <<s[1] % 2, s[2] % 2>>

\* how often the current step has called _ising_update at s
Visits(s) == Cardinality({i \in 1..Len(trace) : trace[i].site = s})

\* C1: every cell of the lattice is -1 or +1, before, inside and after any
\* number of ising_step calls, whatever samples are drawn.
C1_ValueDomain ==
    /\ DOMAIN field = Sites
    /\ \A s \in Sites : field[s] \in {-1, 1}

\* a second ising_step call has returned and its last call flipped a spin
C1_Witness ==
    /\ pc = "return" /\ steps = 2
    /\ last.valid /\ field # last.prev

\* C2: a call of ising_step never calls _ising_update twice at one site, only
\* calls it at sites of the lattice, is inside its loops only with a call at
\* a site not yet called still to make, and when it returns it has made
\* exactly N*M calls, one at every site.
C2_EverySiteOnce ==
    /\ \A i \in 1..Len(trace) : trace[i].site \in Sites
    /\ \A s \in Sites : Visits(s) <= 1
    /\ Len(trace) <= N * M
    /\ pc = "loop" =>
          /\ Len(trace) < N * M
          /\ <<n, m>> \in Sites
          /\ Visits(<<n, m>>) = 0
    /\ pc = "return" =>
          /\ Len(trace) = N * M
          /\ \A s \in Sites : Visits(s) = 1

\* a step over a lattice with an odd side and a side of 1 has returned
C2_Witness == pc = "return" /\ N = 3 /\ M = 1 /\ Len(trace) = 3

\* C4: the Metropolis rule of the most recent _ising_update call, dE being
\* computed from the lattice before the call: dE <= 0 flips without a sample;
\* dE > 0 draws exactly one sample and flips iff exp(-dE*beta) > sample; a -1
\* cell whose eight neighbours are +1 becomes +1.
C4_Metropolis ==
    last.valid =>
        LET s == last.site
            before == last.prev[s]
            dE == 2 * before * NeighbourSum(last.prev, s)
            drawn == trace[Len(trace)].drawn
        IN  /\ dE <= 0 => /\ drawn = 0
                          /\ last.sample = -1
                          /\ field[s] = -before
            /\ dE > 0 => /\ drawn = 1
                         /\ last.sample \in Samples
                         /\ ExpCeil(dE * beta) > last.sample => field[s] = -before
                         /\ ~(ExpCeil(dE * beta) > last.sample) => field[s] = before
            /\ (before = -1 /\ \A o \in NeighbourOffsets :
                    last.prev[<<(s[1] + o[1]) % N, (s[2] + o[2]) % M>>] = 1)
                  => field[s] = 1

\* a call at a site with dE > 0 drew a sample that rejected the flip
C4_Witness ==
    /\ last.valid /\ last.sample = 201897 /\ beta = DefaultBeta
    /\ 2 * last.prev[last.site] * NeighbourSum(last.prev, last.site) = 4
    /\ field = last.prev

\* C6: a step of the program changes no cell other than the site (n, m) of
\* the running _ising_update call, which belongs to the parity class
\* (n_offset, m_offset) of the running pass, and never changes field.shape.
C6_Frame ==
    [][ /\ N' = N /\ M' = M
        /\ DOMAIN field' = DOMAIN field
        /\ \A s \in Sites :
              field'[s] # field[s] =>
                  /\ pc = "loop"
                  /\ s = <<n, m>>
                  /\ Parity(s) = <<n_offset, m_offset>> ]_vars

\* a call of the pass (1, 0) flipped its spin
C6_Witness ==
    /\ last.valid /\ last.n_offset = 1 /\ last.m_offset = 0
    /\ field[last.site] # last.prev[last.site]

\* C7: on a lattice with N >= 3 and M >= 3 the most recent _ising_update call
\* read eight distinct cells, none of them its own site, and they are the
\* cells ((n+a) mod N, (m+b) mod M); at (0, 0) they are the eight listed.
C7_Wraparound ==
    (last.valid /\ N >= 3 /\ M >= 3) =>
        LET s == last.site
            cells == {last.reads[k] : k \in 1..Len(last.reads)}
        IN  /\ Len(last.reads) = 8
            /\ Cardinality(cells) = 8
            /\ s \notin cells
            /\ cells = {<<(s[1] + o[1]) % N, (s[2] + o[2]) % M>> :
                           o \in NeighbourOffsets}
            /\ s = <<0, 0>> =>
                  cells = {<<N-1, M-1>>, <<N-1, 0>>, <<N-1, 1>>, <<0, M-1>>,
                           <<0, 1>>, <<1, M-1>>, <<1, 0>>, <<1, 1>>}

\* the call at (0, 0) of a 3 x 3 lattice has been made
C7_Witness == last.valid /\ N = 3 /\ M = 3 /\ last.site = <<0, 0>>

\* s is evaluated before t: by class (row parity, column parity), then by n,
\* then by m
Precedes(s, t) ==
    LET ks == 2 * (s[1] % 2) + (s[2] % 2)
        kt == 2 * (t[1] % 2) + (t[2] % 2)
    IN  \/ ks < kt
        \/ ks = kt /\ s[1] < t[1]
        \/ ks = kt /\ s[1] = t[1] /\ s[2] < t[2]

\* C8: the calls of a step are made in the order of the classes (0,0), (0,1),
\* (1,0), (1,1) and inside a class by increasing n, then m; when a call is
\* made every site that precedes its site has been called; a call draws a
\* sample exactly when its dE > 0, so samples are consumed in that order.
C8_SweepOrder ==
    /\ \A i, j \in 1..Len(trace) :
          i < j => Precedes(trace[i].site, trace[j].site)
    /\ \A i \in 1..Len(trace) : \A s \in Sites :
          Precedes(s, trace[i].site) => \E j \in 1..(i-1) : trace[j].site = s
    /\ draws = Cardinality({i \in 1..Len(trace) : trace[i].drawn = 1})
    /\ last.valid =>
          (trace[Len(trace)].drawn = 1
             <=> 2 * last.prev[last.site] * NeighbourSum(last.prev, last.site) > 0)

\* a step over a 3 x 3 lattice has returned after drawing at least two samples
C8_Witness == pc = "return" /\ N = 3 /\ M = 3 /\ draws >= 2

\* C10: in every _ising_update call total lies in [-8, 8] and dE is an even
\* integer in [-16, 16], on lattices of every size, sides 1 and 2 included.
C10_DeltaRange ==
    last.valid =>
        LET total == Total(last.prev, last.site[1], last.site[2])
            dE == DeltaE(last.prev, last.site[1], last.site[2])
        IN  /\ total \in -8..8
            /\ dE \in -16..16
            /\ dE % 2 = 0

\* a call on a 1 x 1 lattice, where all eight reads are the site itself
C10_Witness ==
    /\ last.valid /\ N = 1 /\ M = 1
    /\ DeltaE(last.prev, 0, 0) = 16
\* each side is even or 1: no wrapped neighbour has the parity of its site
EvenOrOne(k) == k = 1 \/ k % 2 = 0

\* the sites of the pass (n_offset, m_offset) under way
PassDomain == DOMAIN usample

\* the pass is a parity class, and no call of the pass that has run read a
\* cell, other than its own site, that a call of the same pass can write
NoSharedCell ==
    /\ PassDomain = {s \in Sites : Parity(s) = <<n_offset, m_offset>>}
    /\ \A s \in PassDomain \ todo : \A k \in 1..8 :
          ReadCells(s[1], s[2])[k] # s => ReadCells(s[1], s[2])[k] \notin PassDomain

\* C3 as stated: on every lattice size, the calls of one pass read no cell of
\* the parity class of the pass other than their own site.
C3_Independence_AllSizes == NoSharedCell

\* C3, amended: the same on every lattice whose sides are each even or 1.
C3_Independence == (EvenOrOne(N) /\ EvenOrOne(M)) => NoSharedCell

\* the two calls of a pass of a 4 x 1 lattice have both read
C3_Witness ==
    /\ N = 4 /\ M = 1 /\ Cardinality(PassDomain) = 2
    /\ todo = {} /\ Cardinality(pending) = 2

\* C9 as stated, for permutations alone: on every lattice size, when the
\* calls of a pass have run one after another in whatever order, the lattice
\* is the one the row-major order of ising_step produces.
C9_OrderIndependent_AllSizes ==
    (todo = {} /\ pending = {} /\ ~overlapped) => field = ref

\* C9, amended: on every lattice whose sides are each even or 1, when all
\* calls of a pass have finished, in whatever order and interleaving of their
\* reads and writes, the lattice is the one the row-major order produces.
C9_OrderIndependent ==
    (EvenOrOne(N) /\ EvenOrOne(M) /\ todo = {} /\ pending = {}) => field = ref

\* a pass of two calls has finished, the calls started out of row-major
\* order and both read before either wrote, one of them accepting its flip
C9_Witness ==
    /\ N = 1 /\ M = 4 /\ todo = {} /\ pending = {} /\ swapped /\ overlapped
    /\ \E s \in PassDomain : usample[s] = 0
    /\ field = ref
====
